---- MODULE Spec2Model ----
\* The environment instance of ink! env2 (core/src/env2/env_access/shared_mut.rs)
\* together with its two guest-facing surfaces (core/src/env2/api.rs and
\* core/src/env2/env_access/mutable.rs).
\*
\* One invocation of a contract is a sequence of calls to the surfaces. Every
\* call runs a method of the single EnvInstance through env_with. A method
\* either panics on one of its assertions (result "fatal", nothing changed) or
\* delegates to the host environment `T: Env`, whose answer is an input of the
\* model. A panic unwinds out of env_with and leaves the static instance as it
\* was, so the model lets further calls follow it.
EXTENDS Integers, Sequences, FiniteSets, TLC

VARIABLES
    buffer,              \* EnvInstance.buffer: the bytes left in the scratch buffer
    has_interacted,      \* EnvInstance.has_interacted
    has_returned_value,  \* EnvInstance.has_returned_value
    last,                \* the last call: what was called, how, and what came back
    nOps,                \* number of calls made so far in the invocation
    hostCalls,           \* number of calls that reached the host environment
    lastHostCall,        \* the host function the latest host call went to
    hostOutputs,         \* the payloads the host received through its output function
    inputs_ok,           \* history: number of calls to input that succeeded
    first_output,        \* history: <<v>> once output was first called with v
    boundary_executed,   \* history: some boundary operation (not println) has executed
    other_op_performed,  \* history: some operation other than input and println was performed
    canon,               \* history: the calls so far while the run follows the canonical scenario
    interacting_ok,      \* history: a property read, set_rent_allowance, random, input or output succeeded
    random_ok            \* history: a call to random succeeded

vars == <<buffer, has_interacted, has_returned_value, last, nOps, hostCalls,
          lastHostCall, hostOutputs, inputs_ok, first_output,
          boundary_executed, other_op_performed, canon, interacting_ok,
          random_ok>>

----------------------------------------------------------------------------
\* Bounds and input sets

\* Longest invocation explored, in calls.
MaxOps == 6

\* The two guest-facing surfaces.
Surfaces == {"api", "EnvAccessMut"}

\* The ten property getters generated by impl_get_property_for!.
Getters == {"caller", "transferred_balance", "gas_price", "gas_left",
            "now_in_ms", "address", "balance", "rent_allowance",
            "block_number", "minimum_balance"}

\* Typed values passed by the guest (u32).
Values == {42, 300}

\* Storage keys used by the guest.
Keys == {"k1", "k2"}

\* Byte strings the host may hand back.
HostBytes == {<<42, 0, 0, 0>>, <<7>>}

NoBytes == <<>>

----------------------------------------------------------------------------
\* The binary encode/decode capability (SCALE, fixed-width little endian u32).

Encode(v) ==
    <<v % 256, (v \div 256) % 256, (v \div 65536) % 256, (v \div 16777216) % 256>>

Decodable(bytes) == Len(bytes) >= 4

Decode(bytes) ==
    bytes[1] + 256 * bytes[2] + 65536 * bytes[3] + 16777216 * bytes[4]

----------------------------------------------------------------------------
\* Answers of the host environment `T: Env`. The host is an external
\* collaborator: each answer is an input of the model. `status` is what the host
\* reports, `bytes` what it hands back, `scratch` what is left in the buffer.

Reply(status, bytes, scratch) ==
    [status |-> status, bytes |-> bytes, scratch |-> scratch]

NoReply == Reply("none", NoBytes, NoBytes)

PropertyReplies == {Reply("ok", Encode(v), Encode(v)) : v \in Values}

\* A call that returns nothing: the encoded argument was staged in the buffer.
UnitReplies(value) == {Reply("ok", NoBytes, Encode(value))}

\* A call that does not use the buffer.
BufferlessReplies == {Reply("ok", NoBytes, NoBytes)}

StorageReplies ==
    {Reply("absent", NoBytes, NoBytes)}
        \cup {Reply("present", b, b) : b \in HostBytes}

InvokeErrors == {"trapped"}

EvalErrors == {"trapped", "invalid_address", "insufficient_endowment",
               "invalid_arguments", "gas_exhausted"}

CreateErrors == {"trapped", "invalid_code", "insufficient_endowment",
                 "gas_exhausted"}

InvokeReplies == {Reply(s, NoBytes, NoBytes) : s \in {"ok"} \cup InvokeErrors}

EvalReplies ==
    {Reply("ok", Encode(42), Encode(42))}
        \cup {Reply(s, NoBytes, NoBytes) : s \in EvalErrors}

CreateReplies ==
    {Reply("ok", Encode(300), Encode(300))}
        \cup {Reply(s, NoBytes, NoBytes) : s \in CreateErrors}

\* The input of the call: a 4-byte selector followed by the encoded arguments.
InputReplies ==
    {Reply("ok", <<170, 187, 204, 221>> \o Encode(v),
           <<170, 187, 204, 221>> \o Encode(v)) : v \in Values}

RandomReplies == {Reply("ok", b, b) : b \in HostBytes}

\* A call made to the host: the function called and the payload handed over.
HostCall(fn, payload) == <<[fn |-> fn, payload |-> payload]>>

\* What a typed read makes of the host's answer about a storage entry.
ReadResult(reply) ==
    IF reply.status = "absent" THEN "not_found"
    ELSE IF ~Decodable(reply.bytes) THEN "decode_error"
    ELSE "ok"

ReadValue(reply) ==
    IF ReadResult(reply) = "ok" THEN <<Decode(reply.bytes)>> ELSE <<>>

----------------------------------------------------------------------------
\* The methods of EnvInstance. Each maps the instance (and the host's answer) to
\* the instance afterwards, the result seen by the caller, the value returned
\* and the host call made.

Done(self, result, ret, host) ==
    [self |-> self, result |-> result, ret |-> ret, host |-> host]

\* A failed assert!: the method unwinds before doing anything.
Panic(self) == Done(self, "fatal", <<>>, <<>>)

\* Mutant: the assertion is compiled out.
assert_not_yet_returned_off(self) == TRUE

\* TRUE iff the assertion passes.
assert_not_yet_returned(self) == ~self.has_returned_value

\* Mutant: the flag is never set.
set_has_interacted_skipped(self) == self

\* Mutant: the flag is flipped instead of set.
set_has_interacted_toggled(self) ==
    [self EXCEPT !.has_interacted = ~self.has_interacted]

set_has_interacted(self) == [self EXCEPT !.has_interacted = TRUE]

WithBuffer(self, reply) == [self EXCEPT !.buffer = reply.scratch]

\* Mutant: the property read does not assert.
get_property_unguarded(self, tag, reply) ==
    Done(WithBuffer(set_has_interacted(self), reply), "ok",
         <<Decode(reply.bytes)>>, HostCall("get_property", NoBytes))

get_property(self, tag, reply) ==
    IF ~assert_not_yet_returned(self) THEN Panic(self)
    ELSE Done(WithBuffer(set_has_interacted(self), reply), "ok",
              <<Decode(reply.bytes)>>, HostCall("get_property", NoBytes))

\* Mutant: the property write does not record the interaction.
set_rent_allowance_silent(self, new_value, reply) ==
    IF ~assert_not_yet_returned(self) THEN Panic(self)
    ELSE Done(WithBuffer(self, reply), "ok", <<>>,
              HostCall("set_property", Encode(new_value)))

set_rent_allowance(self, new_value, reply) ==
    IF ~assert_not_yet_returned(self) THEN Panic(self)
    ELSE Done(WithBuffer(set_has_interacted(self), reply), "ok", <<>>,
              HostCall("set_property", Encode(new_value)))

\* Mutant: the storage write is recorded as an interaction.
set_contract_storage_interacting(self, key, value, reply) ==
    Done(WithBuffer(set_has_interacted(self), reply), "ok", <<>>,
         HostCall("set_contract_storage", Encode(value)))

set_contract_storage(self, key, value, reply) ==
    Done(WithBuffer(self, reply), "ok", <<>>,
         HostCall("set_contract_storage", Encode(value)))

\* Mutant: the storage read is guarded and recorded like a property read.
get_contract_storage_as_property(self, key, reply) ==
    IF ~assert_not_yet_returned(self) THEN Panic(self)
    ELSE Done(WithBuffer(set_has_interacted(self), reply), ReadResult(reply),
              ReadValue(reply), HostCall("get_contract_storage", NoBytes))

get_contract_storage(self, key, reply) ==
    Done(WithBuffer(self, reply), ReadResult(reply), ReadValue(reply),
         HostCall("get_contract_storage", NoBytes))

\* The only storage method that does not hand the buffer to the host.
clear_contract_storage(self, key, reply) ==
    Done(self, "ok", <<>>, HostCall("clear_contract_storage", NoBytes))

invoke_contract(self, call_data, reply) ==
    Done(WithBuffer(self, reply), reply.status, <<>>,
         HostCall("invoke_contract", Encode(call_data)))

\* Mutant: the host's result is unwrapped instead of returned.
eval_contract_unwrapped(self, call_data, reply) ==
    Done(WithBuffer(self, reply),
         IF reply.status = "ok" THEN "ok" ELSE "fatal",
         IF reply.status = "ok" THEN <<Decode(reply.bytes)>> ELSE <<>>,
         HostCall("eval_contract", Encode(call_data)))

eval_contract(self, call_data, reply) ==
    Done(WithBuffer(self, reply), reply.status,
         IF reply.status = "ok" THEN <<Decode(reply.bytes)>> ELSE <<>>,
         HostCall("eval_contract", Encode(call_data)))

create_contract(self, params, reply) ==
    Done(WithBuffer(self, reply), reply.status,
         IF reply.status = "ok" THEN <<Decode(reply.bytes)>> ELSE <<>>,
         HostCall("create_contract", Encode(params)))

\* Mutant: emitting an event is recorded as an interaction.
emit_event_interacting(self, event, reply) ==
    Done(WithBuffer(set_has_interacted(self), reply), "ok", <<>>,
         HostCall("emit_event", Encode(event)))

emit_event(self, event, reply) ==
    Done(WithBuffer(self, reply), "ok", <<>>,
         HostCall("emit_event", Encode(event)))

\* Mutant: input does not assert that nothing interacted before.
input_unchecked(self, reply) ==
    IF ~assert_not_yet_returned(self) THEN Panic(self)
    ELSE Done(WithBuffer(set_has_interacted(self), reply), "ok",
              <<reply.bytes>>, HostCall("input", NoBytes))

input(self, reply) ==
    IF self.has_interacted THEN Panic(self)
    ELSE IF ~assert_not_yet_returned(self) THEN Panic(self)
    ELSE Done(WithBuffer(set_has_interacted(self), reply), "ok",
              <<reply.bytes>>, HostCall("input", NoBytes))

\* Mutant: output latches has_returned_value but records no interaction.
output_not_interacting(self, return_value, reply) ==
    IF ~assert_not_yet_returned(self) THEN Panic(self)
    ELSE Done(WithBuffer([self EXCEPT !.has_returned_value = TRUE], reply),
              "ok", <<>>, HostCall("output", Encode(return_value)))

\* Mutant: output also asserts that something interacted before.
output_after_input(self, return_value, reply) ==
    IF ~self.has_interacted \/ ~assert_not_yet_returned(self) THEN Panic(self)
    ELSE Done(WithBuffer([set_has_interacted(self)
                             EXCEPT !.has_returned_value = TRUE], reply),
              "ok", <<>>, HostCall("output", Encode(return_value)))

\* Mutant: output forgets to latch has_returned_value.
output_unlatched(self, return_value, reply) ==
    IF ~assert_not_yet_returned(self) THEN Panic(self)
    ELSE Done(WithBuffer(set_has_interacted(self), reply),
              "ok", <<>>, HostCall("output", Encode(return_value)))

output(self, return_value, reply) ==
    IF ~assert_not_yet_returned(self) THEN Panic(self)
    ELSE Done(WithBuffer([set_has_interacted(self)
                             EXCEPT !.has_returned_value = TRUE], reply),
              "ok", <<>>, HostCall("output", Encode(return_value)))

\* Mutant: random does not record the interaction.
random_silent(self, subject, reply) ==
    IF ~assert_not_yet_returned(self) THEN Panic(self)
    ELSE Done(WithBuffer(self, reply), "ok",
              <<reply.bytes>>, HostCall("random", Encode(subject)))

\* Mutant: random sets the wrong flag.
random_marks_returned(self, subject, reply) ==
    IF ~assert_not_yet_returned(self) THEN Panic(self)
    ELSE Done(WithBuffer([self EXCEPT !.has_returned_value = TRUE], reply),
              "ok", <<reply.bytes>>, HostCall("random", Encode(subject)))

\* Mutant: random asserts only after it has called the host.
random_call_first(self, subject, reply) ==
    IF ~assert_not_yet_returned(self)
    THEN Done(WithBuffer(set_has_interacted(self), reply), "fatal", <<>>,
              HostCall("random", Encode(subject)))
    ELSE Done(WithBuffer(set_has_interacted(self), reply), "ok",
              <<reply.bytes>>, HostCall("random", Encode(subject)))

random(self, subject, reply) ==
    IF ~assert_not_yet_returned(self) THEN Panic(self)
    ELSE Done(WithBuffer(set_has_interacted(self), reply), "ok",
              <<reply.bytes>>, HostCall("random", Encode(subject)))

\* Mutant: println is guarded like the other operations.
println_asserting(self, content, reply) ==
    IF ~assert_not_yet_returned(self) THEN Panic(self)
    ELSE Done(self, "ok", <<>>, HostCall("println", Encode(content)))

\* println passes only the text to the host, never the buffer.
println(self, content, reply) ==
    Done(self, "ok", <<>>, HostCall("println", Encode(content)))

\* Mutant: the read is unwrapped, so an entry the host does not have or
\* cannot be decoded aborts the contract.
get_runtime_storage_unwrapped(self, key, reply) ==
    IF ReadResult(reply) # "ok" THEN Panic(self)
    ELSE Done(WithBuffer(self, reply), "ok", ReadValue(reply),
              HostCall("get_runtime_storage", NoBytes))

get_runtime_storage(self, key, reply) ==
    Done(WithBuffer(self, reply), ReadResult(reply), ReadValue(reply),
         HostCall("get_runtime_storage", NoBytes))

----------------------------------------------------------------------------
\* The two guest-facing surfaces. Every function of either runs one method of
\* the instance inside env_with; `arg` holds the call's arguments in order.

\* The free functions of the raw API.
api(op, self, arg, reply) ==
    CASE op \in Getters -> get_property(self, op, reply)
      [] op = "emit_event" -> emit_event(self, arg[1], reply)
      [] op = "set_rent_allowance" -> set_rent_allowance(self, arg[1], reply)
      [] op = "set_contract_storage" ->
             set_contract_storage(self, arg[1], arg[2], reply)
      [] op = "get_contract_storage" -> get_contract_storage(self, arg[1], reply)
      [] op = "clear_contract_storage" ->
             clear_contract_storage(self, arg[1], reply)
      [] op = "invoke_contract" -> invoke_contract(self, arg[1], reply)
      [] op = "eval_contract" -> eval_contract(self, arg[1], reply)
      [] op = "create_contract" -> create_contract(self, arg[1], reply)
      [] op = "input" -> input(self, reply)
      [] op = "output" -> output(self, arg[1], reply)
      [] op = "random" -> random(self, arg[1], reply)
      [] op = "println" -> println(self, arg[1], reply)
      [] op = "get_runtime_storage" -> get_runtime_storage(self, arg[1], reply)

\* Mutant: the handle's eval_contract forwards to invoke_contract.
EnvAccessMut_misrouted(op, self, arg, reply) ==
    IF op = "eval_contract" THEN invoke_contract(self, arg[1], reply)
    ELSE api(op, self, arg, reply)

\* The methods of the EnvAccessMut handle.
EnvAccessMut(op, self, arg, reply) ==
    CASE op \in Getters -> get_property(self, op, reply)
      [] op = "emit_event" -> emit_event(self, arg[1], reply)
      [] op = "set_rent_allowance" -> set_rent_allowance(self, arg[1], reply)
      [] op = "set_contract_storage" ->
             set_contract_storage(self, arg[1], arg[2], reply)
      [] op = "get_contract_storage" -> get_contract_storage(self, arg[1], reply)
      [] op = "clear_contract_storage" ->
             clear_contract_storage(self, arg[1], reply)
      [] op = "invoke_contract" -> invoke_contract(self, arg[1], reply)
      [] op = "eval_contract" -> eval_contract(self, arg[1], reply)
      [] op = "create_contract" -> create_contract(self, arg[1], reply)
      [] op = "input" -> input(self, reply)
      [] op = "output" -> output(self, arg[1], reply)
      [] op = "random" -> random(self, arg[1], reply)
      [] op = "println" -> println(self, arg[1], reply)
      [] op = "get_runtime_storage" -> get_runtime_storage(self, arg[1], reply)

\* A call through the given surface.
Call(surface, op, self, arg, reply) ==
    IF surface = "api" THEN api(op, self, arg, reply)
    ELSE EnvAccessMut(op, self, arg, reply)

----------------------------------------------------------------------------
\* The single environmental instance and the calls made on it.

\* The static ENV_INSTANCE as the methods see it.
ENV_INSTANCE ==
    [buffer |-> buffer,
     has_interacted |-> has_interacted,
     has_returned_value |-> has_returned_value]

\* Operations of the boundary other than the println diagnostic.
BoundaryOps ==
    Getters \cup {"set_rent_allowance", "input", "output",
                  "get_contract_storage", "set_contract_storage",
                  "clear_contract_storage", "invoke_contract", "eval_contract",
                  "create_contract", "emit_event", "random"}

\* The operations that assert on the flags and record an interaction.
InteractingOps ==
    Getters \cup {"set_rent_allowance", "random", "input", "output"}

\* The canonical scenario as a monitor on the calls made: input, then property
\* reads, then output, then println or property reads. `c` is the scenario's
\* calls so far; a call outside the scenario leaves it for good.
OffScenario == <<"off">>

OpClass(op) == IF op \in Getters THEN "get_property" ELSE op

Written(c) == \E i \in 1..Len(c) : c[i] = "output"

CanonNext(c, op) ==
    IF c = OffScenario THEN OffScenario
    ELSE IF c = <<>>
         THEN IF op = "input" THEN <<"input">> ELSE OffScenario
    ELSE IF ~Written(c)
         THEN IF OpClass(op) \in {"get_property", "output"}
              THEN Append(c, OpClass(op)) ELSE OffScenario
    ELSE IF OpClass(op) \in {"get_property", "println"}
         THEN Append(c, OpClass(op)) ELSE OffScenario

\* env_with: runs a method on the static instance; r is what the method made of
\* ENV_INSTANCE. The instance becomes r.self, the host sees r.host, and the
\* history variables record the call.
env_with(op, surface, arg, reply, r) ==
    /\ nOps < MaxOps
    /\ buffer' = r.self.buffer
    /\ has_interacted' = r.self.has_interacted
    /\ has_returned_value' = r.self.has_returned_value
    /\ last' = [op |-> op, surface |-> surface, arg |-> arg,
                result |-> r.result, ret |-> r.ret,
                reply |-> IF r.host = <<>> THEN NoReply ELSE reply,
                pre |-> [has_interacted |-> has_interacted,
                         has_returned_value |-> has_returned_value,
                         interacting_ok |-> interacting_ok]]
    /\ nOps' = nOps + 1
    /\ hostCalls' = hostCalls + Len(r.host)
    /\ lastHostCall' = IF r.host = <<>> THEN lastHostCall ELSE r.host[1].fn
    /\ hostOutputs' =
           IF r.host # <<>> /\ r.host[1].fn = "output"
           THEN Append(hostOutputs, r.host[1].payload)
           ELSE hostOutputs
    /\ inputs_ok' =
           IF op = "input" /\ r.result = "ok" THEN inputs_ok + 1 ELSE inputs_ok
    /\ first_output' =
           IF op = "output" /\ first_output = <<>> THEN arg ELSE first_output
    /\ boundary_executed' = (boundary_executed \/ op \in BoundaryOps)
    /\ other_op_performed' =
           (other_op_performed \/ op \in BoundaryOps \ {"input"})
    /\ canon' = CanonNext(canon, op)
    /\ interacting_ok' =
           (interacting_ok \/ (op \in InteractingOps /\ r.result = "ok"))
    /\ random_ok' = (random_ok \/ (op = "random" /\ r.result = "ok"))

Init ==
    /\ buffer = <<>>
    /\ has_interacted = FALSE
    /\ has_returned_value = FALSE
    /\ last = [op |-> "none", surface |-> "none", arg |-> <<>>,
               result |-> "none", ret |-> <<>>, reply |-> NoReply,
               pre |-> [has_interacted |-> FALSE,
                        has_returned_value |-> FALSE,
                        interacting_ok |-> FALSE]]
    /\ nOps = 0
    /\ hostCalls = 0
    /\ lastHostCall = "none"
    /\ hostOutputs = <<>>
    /\ inputs_ok = 0
    /\ first_output = <<>>
    /\ boundary_executed = FALSE
    /\ other_op_performed = FALSE
    /\ canon = <<>>
    /\ interacting_ok = FALSE
    /\ random_ok = FALSE

GetProperty ==
    \E surface \in Surfaces, tag \in Getters, reply \in PropertyReplies :
        env_with(tag, surface, <<>>, reply,
                 Call(surface, tag, ENV_INSTANCE, <<>>, reply))

SetRentAllowance ==
    \E surface \in Surfaces, new_value \in Values :
    \E reply \in UnitReplies(new_value) :
        env_with("set_rent_allowance", surface, <<new_value>>, reply,
                 Call(surface, "set_rent_allowance", ENV_INSTANCE, <<new_value>>, reply))

SetContractStorage ==
    \E surface \in Surfaces, key \in Keys, value \in Values :
    \E reply \in UnitReplies(value) :
        env_with("set_contract_storage", surface, <<key, value>>, reply,
                 Call(surface, "set_contract_storage", ENV_INSTANCE, <<key, value>>, reply))

GetContractStorage ==
    \E surface \in Surfaces, key \in Keys, reply \in StorageReplies :
        env_with("get_contract_storage", surface, <<key>>, reply,
                 Call(surface, "get_contract_storage", ENV_INSTANCE, <<key>>, reply))

ClearContractStorage ==
    \E surface \in Surfaces, key \in Keys, reply \in BufferlessReplies :
        env_with("clear_contract_storage", surface, <<key>>, reply,
                 Call(surface, "clear_contract_storage", ENV_INSTANCE, <<key>>, reply))

InvokeContract ==
    \E surface \in Surfaces, call_data \in Values, reply \in InvokeReplies :
        env_with("invoke_contract", surface, <<call_data>>, reply,
                 Call(surface, "invoke_contract", ENV_INSTANCE, <<call_data>>, reply))

EvalContract ==
    \E surface \in Surfaces, call_data \in Values, reply \in EvalReplies :
        env_with("eval_contract", surface, <<call_data>>, reply,
                 Call(surface, "eval_contract", ENV_INSTANCE, <<call_data>>, reply))

CreateContract ==
    \E surface \in Surfaces, params \in Values, reply \in CreateReplies :
        env_with("create_contract", surface, <<params>>, reply,
                 Call(surface, "create_contract", ENV_INSTANCE, <<params>>, reply))

EmitEvent ==
    \E surface \in Surfaces, event \in Values :
    \E reply \in UnitReplies(event) :
        env_with("emit_event", surface, <<event>>, reply,
                 Call(surface, "emit_event", ENV_INSTANCE, <<event>>, reply))

Input ==
    \E surface \in Surfaces, reply \in InputReplies :
        env_with("input", surface, <<>>, reply,
                 Call(surface, "input", ENV_INSTANCE, <<>>, reply))

Output ==
    \E surface \in Surfaces, return_value \in Values :
    \E reply \in UnitReplies(return_value) :
        env_with("output", surface, <<return_value>>, reply,
                 Call(surface, "output", ENV_INSTANCE, <<return_value>>, reply))

Random ==
    \E surface \in Surfaces, subject \in Values, reply \in RandomReplies :
        env_with("random", surface, <<subject>>, reply,
                 Call(surface, "random", ENV_INSTANCE, <<subject>>, reply))

Println ==
    \E surface \in Surfaces, content \in Values, reply \in BufferlessReplies :
        env_with("println", surface, <<content>>, reply,
                 Call(surface, "println", ENV_INSTANCE, <<content>>, reply))

GetRuntimeStorage ==
    \E surface \in Surfaces, key \in Keys, reply \in StorageReplies :
        env_with("get_runtime_storage", surface, <<key>>, reply,
                 Call(surface, "get_runtime_storage", ENV_INSTANCE, <<key>>, reply))

Next ==
    \/ GetProperty
    \/ SetRentAllowance
    \/ SetContractStorage
    \/ GetContractStorage
    \/ ClearContractStorage
    \/ InvokeContract
    \/ EvalContract
    \/ CreateContract
    \/ EmitEvent
    \/ Input
    \/ Output
    \/ Random
    \/ Println
    \/ GetRuntimeStorage

Spec == Init /\ [][Next]_vars

----------------------------------------------------------------------------
\* Which calls the instance permits in a given state.

AllOps == BoundaryOps \cup {"println", "get_runtime_storage"}

RepliesOf(op) ==
    CASE op \in Getters -> PropertyReplies
      [] op \in {"get_contract_storage", "get_runtime_storage"} -> StorageReplies
      [] op = "invoke_contract" -> InvokeReplies
      [] op = "eval_contract" -> EvalReplies
      [] op = "create_contract" -> CreateReplies
      [] op = "input" -> InputReplies
      [] op = "random" -> RandomReplies
      [] op \in {"clear_contract_storage", "println"} -> BufferlessReplies
      [] OTHER -> UNION {UnitReplies(v) : v \in Values}

\* The method `op` names, applied to the instance `self`.
Apply(op, self, key, value, reply) ==
    CASE op \in Getters -> get_property(self, op, reply)
      [] op = "set_rent_allowance" -> set_rent_allowance(self, value, reply)
      [] op = "set_contract_storage" -> set_contract_storage(self, key, value, reply)
      [] op = "get_contract_storage" -> get_contract_storage(self, key, reply)
      [] op = "clear_contract_storage" -> clear_contract_storage(self, key, reply)
      [] op = "invoke_contract" -> invoke_contract(self, value, reply)
      [] op = "eval_contract" -> eval_contract(self, value, reply)
      [] op = "create_contract" -> create_contract(self, value, reply)
      [] op = "emit_event" -> emit_event(self, value, reply)
      [] op = "input" -> input(self, reply)
      [] op = "output" -> output(self, value, reply)
      [] op = "random" -> random(self, value, reply)
      [] op = "println" -> println(self, value, reply)
      [] op = "get_runtime_storage" -> get_runtime_storage(self, key, reply)

\* The instance permits `op` when no call of it fails fatally, whatever its
\* arguments and whatever the host answers.
Permitted(op, self) ==
    \A key \in Keys, value \in Values, reply \in RepliesOf(op) :
        Apply(op, self, key, value, reply).result # "fatal"

\* Every content the scratch buffer can have.
Buffers == {<<>>} \cup {reply.scratch : reply \in UNION {RepliesOf(op) : op \in AllOps}}

Instances ==
    [buffer : Buffers, has_interacted : BOOLEAN, has_returned_value : BOOLEAN]

\* Permitted, tabulated over the instances (merged with the empty function so
\* that the table is computed once and not at every use).
PermittedIn ==
    [self \in Instances |-> {op \in AllOps : Permitted(op, self)}] @@ <<>>

----------------------------------------------------------------------------
\* Claims

\* C1: every boundary operation called after output has succeeded once fails
\* fatally, so that the host's output call is the last host interaction of the
\* invocation apart from println.
C1_NoBoundaryOpAfterOutput ==
    [][(hostOutputs # <<>> /\ last'.op \in BoundaryOps)
           => (last'.result = "fatal" /\ hostCalls' = hostCalls)]_vars

\* C2: input fails whenever any other environment operation was performed
\* before it.
C2_InputOnlyAsFirstAction ==
    [][(other_op_performed /\ last'.op = "input")
           => last'.result = "fatal"]_vars

\* C3: input succeeds at most once per invocation: a call to input made after
\* an earlier successful input fails fatally, whatever happened in between.
C3_InputAtMostOnce ==
    [][(inputs_ok >= 1 /\ last'.op = "input")
           => (last'.result = "fatal" /\ inputs_ok' = inputs_ok)]_vars

C3_Witness ==
    /\ inputs_ok = 1
    /\ last.op = "input"
    /\ last.result = "fatal"
    /\ other_op_performed
    /\ ~has_returned_value

\* C4: the host observes at most one output payload, the encoding of the value
\* passed to the first call of output; every later call of output fails fatally
\* and hands the host nothing.
C4_OutputOnce ==
    /\ [](/\ Len(hostOutputs) <= 1
          /\ first_output # <<>> => hostOutputs = <<Encode(first_output[1])>>)
    /\ [][(first_output # <<>> /\ last'.op = "output")
              => (last'.result = "fatal" /\ hostOutputs' = hostOutputs)]_vars

C4_Witness ==
    /\ last.op = "output"
    /\ last.result = "fatal"
    /\ last.arg # first_output
    /\ hostOutputs = <<Encode(first_output[1])>>

\* C5: in the canonical run, input and the property reads after it succeed and
\* leave has_interacted true and has_returned_value false; output then succeeds
\* and makes has_returned_value true; after that println succeeds and every
\* property read fails fatally.
C5_CanonicalRun ==
    (canon # OffScenario /\ canon # <<>>) =>
        /\ ~Written(canon) =>
               (last.result = "ok" /\ has_interacted /\ ~has_returned_value)
        /\ canon[Len(canon)] = "output" =>
               (last.result = "ok" /\ has_returned_value)
        /\ (Written(canon) /\ canon[Len(canon)] = "println") =>
               (last.result = "ok" /\ has_returned_value)
        /\ (Written(canon) /\ canon[Len(canon)] = "get_property") =>
               (last.result = "fatal" /\ has_returned_value)

C5_Witness ==
    /\ canon = <<"input", "get_property", "get_property", "output",
                 "println", "get_property">>
    /\ last.result = "fatal"

\* C6: both flags are latches: no call, whether it succeeds, returns an error or
\* fails fatally, resets has_interacted or has_returned_value to false.
C6_FlagsAreLatches ==
    [][/\ has_interacted => has_interacted'
       /\ has_returned_value => has_returned_value']_vars

C6_Witness ==
    /\ has_interacted
    /\ has_returned_value
    /\ last.result = "fatal"
    /\ last.pre.has_interacted
    /\ last.pre.has_returned_value

\* C7: has_interacted is false exactly until the first boundary operation
\* executes, whichever operation that is, and true ever after.
C7_InteractedFromFirstBoundaryOp ==
    has_interacted <=> boundary_executed

\* C8: println has no precondition and no flag effect: in every state, also
\* after output, it succeeds, reaches the host and leaves both flags unchanged.
C8_PrintlnExempt ==
    [][last'.op = "println"
           => /\ last'.result = "ok"
              /\ hostCalls' = hostCalls + 1
              /\ lastHostCall' = "println"
              /\ UNCHANGED <<has_interacted, has_returned_value>>]_vars

C8_Witness ==
    /\ last.op = "println"
    /\ last.result = "ok"
    /\ last.pre.has_returned_value
    /\ lastHostCall = "println"

\* C9: when the host reports an error for invoke_contract, eval_contract or
\* create_contract, the call returns that error as its result without failing
\* fatally, both flags are unchanged, and every operation permitted before the
\* call is permitted after it.
CallOps == {"invoke_contract", "eval_contract", "create_contract"}

StorageOps == {"get_contract_storage", "set_contract_storage",
               "clear_contract_storage", "get_runtime_storage"}

ArgsOf(op) ==
    CASE op \in Getters \cup {"input"} -> {<<>>}
      [] op = "set_contract_storage" -> {<<k, v>> : k \in Keys, v \in Values}
      [] op \in {"get_contract_storage", "clear_contract_storage",
                 "get_runtime_storage"} -> {<<k>> : k \in Keys}
      [] OTHER -> {<<v>> : v \in Values}

SurfacesAgree(self) ==
    \A op \in AllOps :
        \A arg \in ArgsOf(op), reply \in RepliesOf(op) :
            api(op, self, arg, reply) = EnvAccessMut(op, self, arg, reply)

SurfacesAgreeIn == [self \in Instances |-> SurfacesAgree(self)] @@ <<>>

C12_SurfacesAgree == SurfacesAgreeIn[ENV_INSTANCE]

C12_Witness ==
    /\ last.surface = "EnvAccessMut"
    /\ last.op = "input"
    /\ last.result = "fatal"
    /\ last.pre.has_interacted
    /\ ~has_returned_value

C14_OutputPrecondition ==
    last.op = "output" =>
        /\ last.result = "fatal" <=> last.pre.has_returned_value
        /\ last.result # "fatal" =>
               (last.result = "ok" /\ has_interacted /\ has_returned_value)

C14_Witness ==
    /\ last.op = "output"
    /\ last.result = "ok"
    /\ ~last.pre.has_interacted
    /\ inputs_ok = 0
    /\ has_interacted
    /\ has_returned_value

SameFlags(a, b) ==
    /\ a.has_interacted = b.has_interacted
    /\ a.has_returned_value = b.has_returned_value

C16_SetRentAllowanceLikeGetter ==
    /\ \A tag \in Getters, v \in Values, rg \in PropertyReplies :
           \A rs \in UnitReplies(v) :
               LET s == set_rent_allowance(ENV_INSTANCE, v, rs)
                   g == get_property(ENV_INSTANCE, tag, rg)
               IN  /\ s.result = "fatal" <=> g.result = "fatal"
                   /\ s.result # "fatal" =>
                          /\ s.result = "ok"
                          /\ SameFlags(s.self, g.self)
                          /\ s.self.has_interacted
                          /\ s.self.has_returned_value = has_returned_value
    /\ last.op = "set_rent_allowance" =>
           /\ last.result = "fatal" <=> last.pre.has_returned_value
           /\ last.result # "fatal" =>
                  /\ has_interacted
                  /\ has_returned_value = last.pre.has_returned_value

C16_Witness ==
    /\ last.op = "set_rent_allowance"
    /\ last.result = "ok"
    /\ ~last.pre.has_interacted
    /\ has_interacted
    /\ ~has_returned_value

\* C17: random fails fatally iff has_returned_value is true; otherwise it
\* succeeds and sets has_interacted, so that every call to input made after a
\* successful random fails fatally.
C17_RandomPrecondition ==
    /\ last.op = "random" =>
           /\ last.result = "fatal" <=> last.pre.has_returned_value
           /\ last.result # "fatal" => (last.result = "ok" /\ has_interacted)
    /\ (last.op = "input" /\ random_ok) => last.result = "fatal"

C17_Witness ==
    /\ last.op = "input"
    /\ last.result = "fatal"
    /\ random_ok
    /\ inputs_ok = 0
    /\ ~has_returned_value

C19_ReturnedOnlyByOutput ==
    /\ has_returned_value => (hostOutputs # <<>> /\ first_output # <<>>)
    /\ (last.op # "output" \/ last.result # "ok") =>
           has_returned_value = last.pre.has_returned_value

C19_Witness ==
    /\ has_returned_value
    /\ last.op = "get_contract_storage"
    /\ last.pre.has_returned_value
    /\ Len(hostOutputs) = 1

\* C20: a fatally failing operation is rejected before it has any effect: when
\* input, output, a property getter, set_rent_allowance or random fails its
\* assertion, no flag was modified and no call was made to the host.
C20_FatalHasNoEffect ==
    [][(last'.op \in InteractingOps /\ last'.result = "fatal")
           => UNCHANGED <<has_interacted, has_returned_value, buffer,
                          hostCalls, lastHostCall, hostOutputs>>]_vars

C20_Witness ==
    /\ last.op = "random"
    /\ last.result = "fatal"
    /\ has_returned_value
    /\ lastHostCall = "output"
    /\ hostCalls = 1

\* C21: in every reachable state has_returned_value implies has_interacted: the
\* instance is never in the state with has_returned_value true and
\* has_interacted false.
C21_ReturnedImpliesInteracted ==
    has_returned_value => has_interacted

C21_Witness ==
    /\ has_returned_value
    /\ has_interacted
    /\ last.op = "output"
    /\ last.result = "ok"
    /\ ~last.pre.has_interacted
    /\ nOps = 1

\* Whether `op` fails fatally on the instance `self`: the set of the answers
\* over every argument and every reply of the host.
Fatality(op, self) ==
    {Apply(op, self, key, value, reply).result = "fatal" :
        key \in Keys, value \in Values, reply \in RepliesOf(op)}

\* On `self`, and on every instance that has the flags of `self`, each
\* operation has one answer to whether it fails fatally.
FlagsDecide(self) ==
    \A op \in AllOps :
        /\ Cardinality(Fatality(op, self)) = 1
        /\ \A other \in Instances :
               SameFlags(self, other) => Fatality(op, other) = Fatality(op, self)

FlagsDecideIn == [self \in Instances |-> FlagsDecide(self)] @@ <<>>

C23_TrueUntilReturnValueSet ==
    hostOutputs = <<>> => has_returned_value

====
